---------------------------- MODULE Spec2Model ----------------------------
(***************************************************************************)
(* Model of the codux client (src/src/codux/main.py): CodeExecutionClient, *)
(* its transport _make_request with the error classification, the request  *)
(* builder and result parser of execute_code, and the inventory            *)
(* operations.                                                             *)
(*                                                                         *)
(* A call is a blocking request/response: the operation builds its request *)
(* and puts it on the wire (pc "idle" -> "sent"), the service takes it (pc *)
(* "sent" -> "waiting") while the calling thread is suspended, and the     *)
(* HTTP outcome completes the call (pc "waiting" -> "done"); Return_ hands *)
(* the result to the caller and the client is idle again.  The remote      *)
(* service is opaque: its outcome is any status and body, or a network     *)
(* failure.  connect_websocket opens the interactive session: it puts the  *)
(* handshake on the wire (pc "idle" -> "ws_sent") and the outcome of the   *)
(* handshake completes it (pc "ws_sent" -> "ws_done"); what is sent and    *)
(* received on the open session is the websockets library's, not modelled. *)
(*                                                                         *)
(* Library behaviour assumed (requests >= 2.27 with the standard json      *)
(* module): Response.json() on a body that is not JSON raises              *)
(* requests.exceptions.JSONDecodeError, which is both a RequestException   *)
(* and a json.JSONDecodeError; raise_for_status() raises HTTPError for a   *)
(* status of 400..599; Session.request merges the headers of the call over *)
(* the session's headers.  The headers requests itself adds to a session   *)
(* (User-Agent, Accept, ...) are left out.  JSON values are objects,       *)
(* arrays and strings; null and numbers in a response are not drawn.       *)
(*                                                                         *)
(* Strings are atomic except where the code takes them apart: URLs and     *)
(* endpoints are sequences of tokens, the token "/" being one slash.       *)
(* Python's None and Optional values are None / Some(v); JSON values are   *)
(* tagged: JObj(f), JArr(s), JStr(x), JBool(b).                            *)
(***************************************************************************)
EXTENDS Integers, Sequences, FiniteSets, TLC

VARIABLES
    base_url,          \* self.base_url
    timeout,           \* self.timeout
    session_headers,   \* self.session.headers
    pc,                \* "idle", "sent", "waiting", "done"; "ws_sent", "ws_done"
    call,              \* the running operation: op, method, endpoint, headers, args
    wire,              \* the requests issued and not yet answered
    nreq,              \* requests issued by the running operation
    http,              \* the HTTP outcome the running operation received
    tres,              \* what _make_request returned or raised
    result,            \* what the operation returned or raised
    base_url_arg,      \* history: the base_url argument the client was built with
    supplied           \* history: the header keys calls have supplied so far

vars ==
    <<base_url, timeout, session_headers, pc, call, wire, nreq, http, tres, result,
      base_url_arg, supplied>>

config == <<base_url, timeout, session_headers>>

-----------------------------------------------------------------------------
(* Bounds of the model *)

\* longest dependency / argument list passed to execute_code
MaxListLen == 1

-----------------------------------------------------------------------------
(* Python values *)

None == [none |-> TRUE]

Some(v) == [none |-> FALSE, v |-> v]

JObj(f) == [t |-> "obj", f |-> f]

JArr(s) == [t |-> "arr", s |-> s]

JStr(x) == [t |-> "str", x |-> x]

JBool(b) == [t |-> "bool", b |-> b]

\* the mapping given by a set of <<key, value>> pairs with distinct keys
FromPairs(P) == [k \in {p[1] : p \in P} |-> (CHOOSE p \in P : p[1] = k)[2]]

EmptyDict == FromPairs({})

\* dict.update: the entries of b are added to a, replacing those of equal key
Update(a, b) ==
    [k \in DOMAIN a \cup DOMAIN b |-> IF k \in DOMAIN b THEN b[k] ELSE a[k]]

\* d[k] = v
Put(d, k, v) == [j \in DOMAIN d \cup {k} |-> IF j = k THEN v ELSE d[j]]

\* truth value of an Optional[Dict]: None and the empty dict are false
Truthy(h) == h # None /\ DOMAIN h.v # {}

\* Rstrip removing one trailing slash at most
Rstrip_Once(s) ==
    IF s # <<>> /\ s[Len(s)] = "/" THEN SubSeq(s, 1, Len(s) - 1) ELSE s

RECURSIVE Rstrip(_)
\* str.rstrip('/')
Rstrip(s) ==
    IF s # <<>> /\ s[Len(s)] = "/" THEN Rstrip(SubSeq(s, 1, Len(s) - 1)) ELSE s

RECURSIVE Lstrip(_)
\* str.lstrip('/')
Lstrip(s) ==
    IF s # <<>> /\ s[1] = "/" THEN Lstrip(Tail(s)) ELSE s

-----------------------------------------------------------------------------
(* Inputs *)

DEFAULT_BASE_URL == <<"http", "://", "localhost", "/", "api", "/", "v2">>

DEFAULT_TIMEOUT == 30

\* the base_url argument: with no, one and two trailing slashes
BaseUrlInputs ==
    { DEFAULT_BASE_URL, DEFAULT_BASE_URL \o <<"/">>, DEFAULT_BASE_URL \o <<"/", "/">> }

TimeoutInputs == {DEFAULT_TIMEOUT}

HeaderKeys == {"Authorization", "X-Trace"}

\* header dicts given at construction, and per call
DefaultHeaderDicts == UNION { [D -> {"default"}] : D \in SUBSET HeaderKeys }

CallHeaderDicts == UNION { [D -> {"percall"}] : D \in SUBSET HeaderKeys }

DefaultHeaderInputs == {None} \cup {Some(h) : h \in DefaultHeaderDicts}

CallHeaderInputs == {None} \cup {Some(h) : h \in CallHeaderDicts}

Pairs == { <<"python", "3.11.0">>, <<"node", "18.0.0">> }

ProcessIds == {"p1"}

EP_RUNTIMES == <<"/", "runtimes">>

EP_PACKAGES == <<"/", "packages">>

EP_EXECUTE == <<"/", "execute">>

EP_PROCESS(id) == <<"/", "process", "/", id>>

-----------------------------------------------------------------------------
(* The remote service's answers *)

Statuses == {200, 204, 404, 409, 500}

NetworkErrors == {"ConnectionError", "Timeout"}

EmptyBody == [fmt |-> "empty"]

TextBody == [fmt |-> "text"]

JsonBody(j) == [fmt |-> "json", val |-> j]

\* error bodies: with and without a message field, and JSON that is no object
ErrorJson ==
    { JObj(FromPairs({<<"message", JStr("no such package")>>})),
      JObj(FromPairs({<<"message", JStr("")>>})),
      JObj(FromPairs({<<"error", JStr("boom")>>})),
      JObj(EmptyDict),
      JArr(<<>>),
      JStr("oops") }

CommonBodies == {EmptyBody, TextBody} \cup {JsonBody(j) : j \in ErrorJson}

OptField(k, Vals) == {{}} \cup {{<<k, v>>} : v \in Vals}

\* a stage of an /execute response: stdout and stderr, each optional
StageObjs ==
    { JObj(FromPairs(a \cup b)) :
        a \in OptField("stdout", {JStr(""), JStr("hi\n")}),
        b \in OptField("stderr", {JStr("err")}) }

StagesObjs ==
    { JObj(FromPairs(a \cup b)) :
        a \in OptField("install", StageObjs),
        b \in OptField("execute", StageObjs) }

ExecuteJson ==
    { JObj(FromPairs(a \cup b \cup c)) :
        a \in OptField("stages", StagesObjs),
        b \in OptField("webAppUrl", {JStr("http://app")}),
        c \in OptField("run", {JStr("extra")}) }

RuntimeEntries ==
    { JObj(FromPairs({<<"language", JStr("python")>>, <<"version", JStr("3.11.0")>>})),
      JObj(FromPairs({<<"language", JStr("node")>>, <<"version", JStr("18.0.0")>>,
                      <<"runtime", JStr("node")>>, <<"aliases", JArr(<<JStr("js")>>)>>})),
      JObj(FromPairs({<<"language", JStr("go")>>})),
      JObj(FromPairs({<<"language", JStr("rust")>>, <<"version", JStr("1.68.2")>>,
                      <<"pkg", JStr("x")>>})) }

PackageEntries ==
    { JObj(FromPairs({<<"language", JStr("python")>>, <<"language_version", JStr("3.11.0")>>,
                      <<"installed", JBool(TRUE)>>})),
      JObj(FromPairs({<<"language", JStr("node")>>, <<"language_version", JStr("18.0.0")>>,
                      <<"installed", JBool(FALSE)>>})),
      JObj(FromPairs({<<"language", JStr("go")>>, <<"installed", JBool(TRUE)>>})) }

ArraysOf(E) == {JArr(<<>>)} \cup {JArr(<<e>>) : e \in E} \cup {JArr(<<e, f>>) : e \in E, f \in E}

\* methods and endpoints of a direct call of the transport
Methods == {"GET", "POST", "DELETE"}

TransportEndpoints == { <<"packages">>, EP_PACKAGES, <<"/", "/", "packages">>, <<"execute">> }

SuccessJson(op) ==
    CASE op = "execute_code" -> ExecuteJson
      [] op = "list_runtimes" -> ArraysOf(RuntimeEntries)
      [] op = "list_packages" -> ArraysOf(PackageEntries)
      [] OTHER -> {}

Response(s, b) == [kind |-> "response", status_code |-> s, body |-> b]

NetworkError(e) == [kind |-> "error", exc |-> e]

\* the outcomes of one HTTP exchange of operation op
HttpOutcomes(op) ==
    {NetworkError(e) : e \in NetworkErrors}
    \cup {Response(s, b) : s \in Statuses, b \in CommonBodies}
    \cup {Response(200, JsonBody(j)) : j \in SuccessJson(op)}

-----------------------------------------------------------------------------
(* Outcomes of a call, and the text of messages *)

\* a Python str that becomes part of a message: a sequence of tokens, empty for ""
Text(x) == IF x = "" THEN <<>> ELSE <<x>>

Return(v) == [kind |-> "return", val |-> v]

Raise(exc, msg) == [kind |-> "raise", exc |-> exc, msg |-> msg]

\* str(e) of the HTTPError raise_for_status() raises
StrHTTPError(status) == <<ToString(status), " Error for url">>

\* str(e) of the JSONDecodeError Response.json() raises
StrJSONDecodeError == <<"Expecting value: line 1 column 1 (char 0)">>

\* str(e) of a network-level RequestException
StrNetworkError(e) == <<e>>

API_REQUEST_FAILED == <<"API request failed: ">>

-----------------------------------------------------------------------------
(* CodeExecutionClient.__init__ *)

\* self.session.headers after construction with the headers argument h
InitSessionHeaders(h) == IF Truthy(h) THEN Update(EmptyDict, h.v) ELSE EmptyDict

Init ==
    /\ base_url_arg \in BaseUrlInputs
    /\ base_url = Rstrip(base_url_arg)
    /\ supplied = {}
    /\ timeout \in TimeoutInputs
    /\ \E h \in DefaultHeaderInputs : session_headers = InitSessionHeaders(h)
    /\ pc = "idle"
    /\ call = None
    /\ wire = <<>>
    /\ nreq = 0
    /\ http = None
    /\ tres = None
    /\ result = None

-----------------------------------------------------------------------------
(* CodeExecutionClient._make_request *)

\* url = f"{self.base_url}/{endpoint.lstrip('/')}"
Url(base, endpoint) == base \o <<"/">> \o Lstrip(endpoint)

\* RequestHeaders with the update the other way round: the defaults win
RequestHeaders_DefaultsWin(sess, headers) ==
    IF Truthy(headers) THEN Some(Update(headers.v, sess)) ELSE None

\* the headers keyword handed to session.request: the merged copy, or none
RequestHeaders(sess, headers) ==
    IF Truthy(headers) THEN Some(Update(sess, headers.v)) ELSE None

\* the headers session.request sends: those of the call merged over the session's
SessionSend(sess, kw) == IF kw = None THEN sess ELSE Update(sess, kw.v)

\* the request session.request puts on the wire
PreparedRequest(method, endpoint, headers, json) ==
    [method  |-> method,
     url     |-> Url(base_url, endpoint),
     headers |-> SessionSend(session_headers, RequestHeaders(session_headers, headers)),
     timeout |-> timeout,
     json    |-> json]

\* response.json().get('message', default) on an error response, raising exc
RaiseFromBody(exc, body, default) ==
    IF body.fmt # "json"
    THEN Raise("CodeExecutionError", API_REQUEST_FAILED \o StrJSONDecodeError)
    ELSE IF body.val.t # "obj"
    THEN Raise("AttributeError", <<"object has no attribute 'get'">>)
    ELSE IF "message" \in DOMAIN body.val.f
    THEN Raise(exc, Text(body.val.f["message"].x))
    ELSE Raise(exc, default)

\* HandleHTTPError without the except clause for the decoding error
HandleHTTPError_NoExcept(r) ==
    IF r.body.fmt # "json"
    THEN Raise("JSONDecodeError", StrJSONDecodeError)
    ELSE IF r.body.val.t # "obj"
    THEN Raise("AttributeError", <<"object has no attribute 'get'">>)
    ELSE IF "message" \in DOMAIN r.body.val.f
    THEN Raise("CodeExecutionError", API_REQUEST_FAILED \o Text(r.body.val.f["message"].x))
    ELSE Raise("CodeExecutionError", API_REQUEST_FAILED \o StrHTTPError(r.status_code))

\* the handler of the HTTPError raised by response.raise_for_status()
HandleHTTPError(r) ==
    IF r.body.fmt # "json"
    THEN Raise("CodeExecutionError", API_REQUEST_FAILED \o StrHTTPError(r.status_code))
    ELSE IF r.body.val.t # "obj"
    THEN Raise("AttributeError", <<"object has no attribute 'get'">>)
    ELSE IF "message" \in DOMAIN r.body.val.f
    THEN Raise("CodeExecutionError", API_REQUEST_FAILED \o Text(r.body.val.f["message"].x))
    ELSE Raise("CodeExecutionError", API_REQUEST_FAILED \o StrHTTPError(r.status_code))

\* ReturnBody decoding the body whether or not there is one
ReturnBody_AlwaysDecode(body) ==
    IF body.fmt = "json" THEN Return(body.val)
    ELSE Raise("CodeExecutionError", API_REQUEST_FAILED \o StrJSONDecodeError)

\* return response.json() if response.content else {}
ReturnBody(body) ==
    IF body.fmt = "empty" THEN Return(JObj(EmptyDict))
    ELSE IF body.fmt = "json" THEN Return(body.val)
    ELSE Raise("CodeExecutionError", API_REQUEST_FAILED \o StrJSONDecodeError)

\* the endpoint on which a 409 is an already-installed package
IsPackagesEndpoint(endpoint) == endpoint = <<"packages">>

\* what _make_request(method, endpoint) returns or raises on the HTTP outcome o
make_request(endpoint, o) ==
    IF o.kind = "error"
    THEN Raise("CodeExecutionError", API_REQUEST_FAILED \o StrNetworkError(o.exc))
    ELSE IF o.status_code = 404
    THEN RaiseFromBody("PackageNotFoundError", o.body, <<"Package not found">>)
    ELSE IF o.status_code = 409 /\ IsPackagesEndpoint(endpoint)
    THEN RaiseFromBody("PackageAlreadyInstalledError", o.body, <<"Package already installed">>)
    ELSE IF o.status_code >= 400
    THEN HandleHTTPError(o)
    ELSE ReturnBody(o.body)

-----------------------------------------------------------------------------
(* The operations: what each does with the outcome of _make_request *)

RuntimeRequired == {"language", "version"}

RuntimeFields == {"language", "version", "runtime", "aliases"}

PackageFields == {"language", "language_version", "installed"}

\* Runtime(**e)
RuntimeOf(e) ==
    [language |-> e.f["language"],
     version  |-> e.f["version"],
     runtime  |-> IF "runtime" \in DOMAIN e.f THEN e.f["runtime"] ELSE None,
     aliases  |-> IF "aliases" \in DOMAIN e.f THEN e.f["aliases"] ELSE JArr(<<>>)]

\* Package(**e)
PackageOf(e) ==
    [language         |-> e.f["language"],
     language_version |-> e.f["language_version"],
     installed        |-> e.f["installed"]]

\* whether cls(**e) accepts the entry e: a mapping with the required and no unknown keys
Accepts(e, required, fields) ==
    /\ e.t = "obj"
    /\ required \subseteq DOMAIN e.f
    /\ DOMAIN e.f \subseteq fields

\* the entries a comprehension over the response iterates
Iterated(response) ==
    CASE response.t = "arr" -> response.s
      [] response.t = "obj" ->
            IF DOMAIN response.f = {} THEN <<>> ELSE <<JStr("key")>>
      [] response.t = "str" -> IF response.x = "" THEN <<>> ELSE <<JStr("char")>>

\* list_runtimes skipping the entries Runtime(**e) does not accept
list_runtimes_result_Skip(t) ==
    IF t.kind = "raise" THEN t
    ELSE LET es == Iterated(t.val)
             ok(e) == Accepts(e, RuntimeRequired, RuntimeFields)
             kept == SelectSeq(es, ok)
         IN  Return([i \in DOMAIN kept |-> RuntimeOf(kept[i])])

\* list_runtimes: [Runtime(**runtime) for runtime in response]
list_runtimes_result(t) ==
    IF t.kind = "raise" THEN t
    ELSE LET es == Iterated(t.val) IN
         IF \A i \in DOMAIN es : Accepts(es[i], RuntimeRequired, RuntimeFields)
         THEN Return([i \in DOMAIN es |-> RuntimeOf(es[i])])
         ELSE Raise("TypeError", <<"Runtime.__init__() got unexpected arguments">>)

\* list_packages: [Package(**package) for package in response]
list_packages_result(t) ==
    IF t.kind = "raise" THEN t
    ELSE LET es == Iterated(t.val) IN
         IF \A i \in DOMAIN es : Accepts(es[i], PackageFields, PackageFields)
         THEN Return([i \in DOMAIN es |-> PackageOf(es[i])])
         ELSE Raise("TypeError", <<"Package.__init__() got unexpected arguments">>)

\* install_package catching PackageNotFoundError as well
install_package_result_CatchAll(t) ==
    IF t.kind = "return" THEN Return(TRUE)
    ELSE IF t.exc \in {"PackageAlreadyInstalledError", "PackageNotFoundError"}
    THEN Return(FALSE)
    ELSE t

\* install_package: True, or False when PackageAlreadyInstalledError was raised
install_package_result(t) ==
    IF t.kind = "return" THEN Return(TRUE)
    ELSE IF t.exc = "PackageAlreadyInstalledError" THEN Return(FALSE)
    ELSE t

\* uninstall_package: the response is dropped
uninstall_package_result(t) == IF t.kind = "return" THEN Return(None) ELSE t

\* terminate_process: the response is dropped
terminate_process_result(t) == IF t.kind = "return" THEN Return(None) ELSE t

-----------------------------------------------------------------------------
(* execute_code: the request builder and the result parser *)

ListsOf(E) == UNION { [1..n -> E] : n \in 0..MaxListLen }

OptOf(S) == {None} \cup {Some(v) : v \in S}

MandatoryKeys == {"language", "version", "files"}

OptionalKeys ==
    {"dependencies", "args", "stdin", "compile_memory_limit", "run_memory_limit",
     "run_timeout", "compile_timeout", "run_cpu_time", "compile_cpu_time"}

\* the arguments of an execute_code call
ExecArgs ==
    [code                 : {"print('Hello, World!')"},
     language             : {"python"},
     version              : {"3.11.0"},
     name                 : {"main"},
     encoding             : {"utf8"},
     dependencies         : OptOf(ListsOf({"numpy"})),
     args                 : OptOf(ListsOf({"-v"})),
     stdin                : OptOf({"", "input"}),
     compile_memory_limit : OptOf({1}),
     run_memory_limit     : OptOf({1}),
     run_timeout          : OptOf({1}),
     compile_timeout      : OptOf({1}),
     run_cpu_time         : OptOf({1}),
     compile_cpu_time     : OptOf({1})]

\* PutIfNotNone sending every key, None standing for an unset value
PutIfNotNone_Placeholder(payload, a, k) ==
    Put(payload, k, IF a[k] # None THEN a[k].v ELSE None)

\* PutIfNotNone testing the value's truth ("if dependencies:") for the two lists
PutIfNotNone_Truthy(payload, a, k) ==
    IF a[k] # None /\ ~(k \in {"dependencies", "args"} /\ a[k].v = <<>>)
    THEN Put(payload, k, a[k].v)
    ELSE payload

\* if a[k] is not None: payload[k] = a[k]
PutIfNotNone(payload, a, k) ==
    IF a[k] # None THEN Put(payload, k, a[k].v) ELSE payload

\* the payload execute_code posts for the arguments a
BuildPayload(a) ==
    LET p0 == [language |-> a.language,
               version  |-> a.version,
               files    |-> <<[name |-> a.name, content |-> a.code, encoding |-> a.encoding]>>]
        p1 == PutIfNotNone(p0, a, "dependencies")
        p2 == PutIfNotNone(p1, a, "args")
        p3 == PutIfNotNone(p2, a, "stdin")
        p4 == PutIfNotNone(p3, a, "compile_memory_limit")
        p5 == PutIfNotNone(p4, a, "run_memory_limit")
        p6 == PutIfNotNone(p5, a, "run_timeout")
        p7 == PutIfNotNone(p6, a, "compile_timeout")
        p8 == PutIfNotNone(p7, a, "run_cpu_time")
        p9 == PutIfNotNone(p8, a, "compile_cpu_time")
    IN  p9

\* k in j
In(k, j) ==
    CASE j.t = "obj" -> k \in DOMAIN j.f
      [] j.t = "arr" -> \E i \in DOMAIN j.s : j.s[i] = JStr(k)
      [] j.t = "str" -> j.x = k

\* Get with the empty string as the default, stage.get(k, "")
Get_DefaultEmpty(stage, k) == IF k \in DOMAIN stage.f THEN Some(stage.f[k].x) ELSE Some("")

\* stage.get(k): the value, or None
Get(stage, k) == IF k \in DOMAIN stage.f THEN Some(stage.f[k].x) ELSE None

\* ExecutionResult()
EmptyResult ==
    [install_output |-> None, install_error |-> None, execute_output |-> None,
     execute_error |-> None, web_app_url |-> None]

\* the ExecutionResult built from the decoded response
ParseResult(response) ==
    LET r0 == EmptyResult
        stages == response.f["stages"]
        r1 == IF In("stages", response) /\ In("install", stages)
              THEN [r0 EXCEPT !.install_output = Get(stages.f["install"], "stdout"),
                              !.install_error  = Get(stages.f["install"], "stderr")]
              ELSE r0
        r2 == IF In("stages", response) /\ In("execute", stages)
              THEN [r1 EXCEPT !.execute_output = Get(stages.f["execute"], "stdout"),
                              !.execute_error  = Get(stages.f["execute"], "stderr")]
              ELSE r1
        r3 == IF In("webAppUrl", response)
              THEN [r2 EXCEPT !.web_app_url = Some(response.f["webAppUrl"].x)]
              ELSE r2
    IN  r3

\* execute_code: the parsed result of the response
execute_code_result(t) ==
    IF t.kind = "raise" THEN t
    ELSE IF t.val.t # "obj" /\ (In("stages", t.val) \/ In("webAppUrl", t.val))
    THEN Raise("TypeError", <<"indices must be integers">>)
    ELSE Return(ParseResult(t.val))

\* what operation op hands its caller when _make_request gave t
OpResult(op, t) ==
    CASE op = "list_runtimes"     -> list_runtimes_result(t)
      [] op = "list_packages"     -> list_packages_result(t)
      [] op = "install_package"   -> install_package_result(t)
      [] op = "uninstall_package" -> uninstall_package_result(t)
      [] op = "terminate_process" -> terminate_process_result(t)
      [] op = "execute_code"      -> execute_code_result(t)
      [] op = "_make_request"     -> t

-----------------------------------------------------------------------------
(* Actions *)

\* extra_headers=headers: the headers of the call, and nothing when there are none
ExtraHeaders(headers) == IF headers = None THEN EmptyDict ELSE headers.v

\* Issue writing the headers of the call into the session's headers
Issue_UpdateSession(op, method, endpoint, headers, json, args) ==
    /\ pc' = "sent"
    /\ call' = [op |-> op, method |-> method, endpoint |-> endpoint,
                headers |-> headers, args |-> args]
    /\ wire' = Append(wire, PreparedRequest(method, endpoint, headers, json))
    /\ nreq' = nreq + 1
    /\ supplied' = supplied \cup DOMAIN ExtraHeaders(headers)
    /\ session_headers' = Update(session_headers, ExtraHeaders(headers))
    /\ UNCHANGED <<base_url, timeout, base_url_arg, http, tres, result>>

\* the operation calls _make_request, which issues the request and blocks
Issue(op, method, endpoint, headers, json, args) ==
    /\ pc' = "sent"
    /\ call' = [op |-> op, method |-> method, endpoint |-> endpoint,
                headers |-> headers, args |-> args]
    /\ wire' = Append(wire, PreparedRequest(method, endpoint, headers, json))
    /\ nreq' = nreq + 1
    /\ supplied' = supplied \cup DOMAIN ExtraHeaders(headers)
    /\ UNCHANGED <<config, base_url_arg, http, tres, result>>

list_runtimes ==
    /\ pc = "idle"
    /\ \E h \in CallHeaderInputs :
           Issue("list_runtimes", "GET", EP_RUNTIMES, h, None, None)

list_packages ==
    /\ pc = "idle"
    /\ \E h \in CallHeaderInputs :
           Issue("list_packages", "GET", EP_PACKAGES, h, None, None)

install_package ==
    /\ pc = "idle"
    /\ \E p \in Pairs, h \in CallHeaderInputs :
           Issue("install_package", "POST", EP_PACKAGES, h,
                 Some([language |-> p[1], version |-> p[2]]), Some(p))

uninstall_package ==
    /\ pc = "idle"
    /\ \E p \in Pairs, h \in CallHeaderInputs :
           Issue("uninstall_package", "DELETE", EP_PACKAGES, h,
                 Some([language |-> p[1], version |-> p[2]]), Some(p))

terminate_process ==
    /\ pc = "idle"
    /\ \E id \in ProcessIds, h \in CallHeaderInputs :
           Issue("terminate_process", "DELETE", EP_PROCESS(id), h, None, Some(id))

execute_code ==
    /\ pc = "idle"
    /\ \E a \in ExecArgs, h \in CallHeaderInputs :
           Issue("execute_code", "POST", EP_EXECUTE, h, Some(BuildPayload(a)), Some(a))

\* a direct call of the transport, _make_request(method, endpoint, headers)
make_request_call ==
    /\ pc = "idle"
    /\ \E m \in Methods, e \in TransportEndpoints, h \in CallHeaderInputs :
           Issue("_make_request", m, e, h, None, None)

RECURSIVE AfterScheme(_)
\* base_url.split('://', 1)[1], for a URL that has a scheme
AfterScheme(s) == IF s[1] = "://" THEN Tail(s) ELSE AfterScheme(Tail(s))

\* ws_url = f"ws://{self.base_url.split('://', 1)[1]}/connect"
WsUrl(base) == <<"ws", "://">> \o AfterScheme(base) \o <<"/", "connect">>

\* the outcomes of the opening handshake: accepted, rejected, connection failed
HandshakeOutcomes ==
    {NetworkError(e) : e \in NetworkErrors}
    \cup {Response(st, EmptyBody) : st \in {101, 404, 500}}

\* what websockets.connect returns or raises on the handshake outcome o
ConnectResult(o) ==
    IF o.kind = "error" THEN Raise("OSError", StrNetworkError(o.exc))
    ELSE IF o.status_code = 101 THEN Return([session |-> "WebSocketClientProtocol"])
    ELSE Raise("InvalidStatusCode", <<ToString(o.status_code)>>)

\* connect_websocket(headers): the opening handshake goes on the wire
connect_websocket ==
    /\ pc = "idle"
    /\ \E h \in CallHeaderInputs :
          /\ call' = [op |-> "connect_websocket", method |-> "GET",
                      endpoint |-> <<"/", "connect">>, headers |-> h, args |-> None]
          /\ wire' = Append(wire, [method  |-> "GET",
                                   url     |-> WsUrl(base_url),
                                   headers |-> ExtraHeaders(h),
                                   timeout |-> None,
                                   json    |-> None])
          /\ supplied' = supplied \cup DOMAIN ExtraHeaders(h)
    /\ pc' = "ws_sent"
    /\ nreq' = nreq + 1
    /\ UNCHANGED <<config, base_url_arg, http, tres, result>>

\* the handshake ends: connect_websocket returns the session or raises
ConnectComplete ==
    /\ pc = "ws_sent"
    /\ \E o \in HandshakeOutcomes :
          /\ http' = o
          /\ result' = ConnectResult(o)
    /\ pc' = "ws_done"
    /\ wire' = <<>>
    /\ UNCHANGED <<config, base_url_arg, supplied, call, nreq, tres>>

\* the service takes the request off the wire; the call waits for the answer.
\* The arguments of execute_code are dead once the payload is sent.
Deliver ==
    /\ pc = "sent"
    /\ wire # <<>>
    /\ pc' = "waiting"
    /\ wire' = Tail(wire)
    /\ call' = IF call.op = "execute_code" THEN [call EXCEPT !.args = None] ELSE call
    /\ UNCHANGED <<config, base_url_arg, supplied, nreq, http, tres, result>>

\* Complete with one automatic retry after a network failure
Complete_Retry ==
    /\ pc = "waiting"
    /\ \E o \in HttpOutcomes(call.op) :
          IF o.kind = "error" /\ nreq < 2
          THEN /\ pc' = "sent"
               /\ wire' = Append(wire, PreparedRequest(call.method, call.endpoint,
                                                       call.headers, None))
               /\ nreq' = nreq + 1
               /\ UNCHANGED <<config, base_url_arg, supplied, call, http, tres, result>>
          ELSE /\ http' = o
               /\ tres' = make_request(call.endpoint, o)
               /\ result' = OpResult(call.op, make_request(call.endpoint, o))
               /\ pc' = "done"
               /\ UNCHANGED <<config, base_url_arg, supplied, call, wire, nreq>>

\* the HTTP exchange ends: _make_request returns or raises, and the operation
\* finishes with it
Complete ==
    /\ pc = "waiting"
    /\ \E o \in HttpOutcomes(call.op) :
          /\ http' = o
          /\ tres' = make_request(call.endpoint, o)
          /\ result' = OpResult(call.op, make_request(call.endpoint, o))
    /\ pc' = "done"
    /\ UNCHANGED <<config, base_url_arg, supplied, call, wire, nreq>>

\* the caller takes the result; the client holds nothing of the call
Return_ ==
    /\ pc \in {"done", "ws_done"}
    /\ pc' = "idle"
    /\ call' = None
    /\ nreq' = 0
    /\ http' = None
    /\ tres' = None
    /\ result' = None
    /\ UNCHANGED <<config, base_url_arg, supplied, wire>>

Next ==
    \/ list_runtimes
    \/ list_packages
    \/ install_package
    \/ uninstall_package
    \/ terminate_process
    \/ execute_code
    \/ make_request_call
    \/ connect_websocket
    \/ ConnectComplete
    \/ Deliver
    \/ Complete
    \/ Return_

Spec == Init /\ [][Next]_vars

-----------------------------------------------------------------------------
(* Properties *)

\* a call has ended on an HTTP response with status s
Answered(s) == pc = "done" /\ http.kind = "response" /\ http.status_code = s

\* the error kinds of the taxonomy
NotFound == "PackageNotFoundError"

AlreadyExists == "PackageAlreadyInstalledError"

TransportFailure == "CodeExecutionError"

PublicOps ==
    {"list_runtimes", "list_packages", "install_package", "uninstall_package",
     "terminate_process", "execute_code"}

\* C1: when the service answers install_package's POST with 409, install_package
\* returns false and raises nothing, for every pair and with or without headers.
C1_Install409ReturnsFalse ==
    (Answered(409) /\ call.op = "install_package") => result = Return(FALSE)

\* C2: a 404 on any endpoint and method raises NotFound, carrying the body's
\* message field if the body is a JSON object that has one, else the default.
C2_404RaisesNotFound ==
    Answered(404) =>
        /\ tres.kind = "raise"
        /\ tres.exc = NotFound
        /\ tres.msg =
              IF /\ http.body.fmt = "json"
                 /\ http.body.val.t = "obj"
                 /\ "message" \in DOMAIN http.body.val.f
              THEN Text(http.body.val.f["message"].x)
              ELSE <<"Package not found">>

\* C3: a 500 whose body is not valid JSON raises TransportFailure with a
\* non-empty message made of the HTTP error's own description; no decoding
\* error reaches the caller.
C3_Malformed500 ==
    (Answered(500) /\ http.body.fmt # "json") =>
        /\ tres = Raise(TransportFailure, API_REQUEST_FAILED \o StrHTTPError(500))
        /\ Len(tres.msg) > Len(API_REQUEST_FAILED)
        /\ result = tres

C3_Witness ==
    /\ Answered(500)
    /\ http.body = TextBody
    /\ call.op = "execute_code"
    /\ result = Raise(TransportFailure, API_REQUEST_FAILED \o StrHTTPError(500))

\* C4: a 409 on an endpoint other than the package endpoint raises
\* TransportFailure and never AlreadyExists, so execute_code, list_runtimes and
\* terminate_process hand their caller TransportFailure.
C4_409ElsewhereTransportFailure ==
    (Answered(409) /\ call.op \in {"execute_code", "list_runtimes", "terminate_process"}) =>
        /\ tres.kind = "raise"
        /\ tres.exc = TransportFailure
        /\ result = tres

\* an execute_code call has put its request on the wire
ExecuteSent == pc = "sent" /\ call.op = "execute_code"

\* the optional parameters the caller of the running execute_code provided
Provided == {k \in OptionalKeys : call.args.v[k] # None}

\* C5: the key set of the payload execute_code sends is exactly the mandatory
\* keys and the optional parameters the caller provided, each with the value
\* given; a parameter left unset is no key of the payload.
C5_PayloadKeys ==
    ExecuteSent =>
        LET payload == wire[1].json.v IN
        /\ DOMAIN payload = MandatoryKeys \cup Provided
        /\ \A k \in Provided : payload[k] = call.args.v[k].v
        /\ \A k \in OptionalKeys \ Provided : k \notin DOMAIN payload

C5_Witness ==
    /\ ExecuteSent
    /\ Provided = {"args", "run_timeout", "compile_cpu_time"}
    /\ DOMAIN wire[1].json.v = MandatoryKeys \cup {"args", "run_timeout", "compile_cpu_time"}

\* C6: an explicitly empty dependency or argument list is a key of the payload
\* with the empty list as its value, and the payload differs from the one
\* built when the parameter is not provided.
C6_EmptyListKept ==
    ExecuteSent =>
        \A k \in {"dependencies", "args"} :
            call.args.v[k] = Some(<<>>) =>
                /\ k \in DOMAIN wire[1].json.v
                /\ wire[1].json.v[k] = <<>>
                /\ wire[1].json.v # BuildPayload([call.args.v EXCEPT ![k] = None])

C6_Witness ==
    /\ ExecuteSent
    /\ call.args.v["dependencies"] = Some(<<>>)
    /\ call.args.v["args"] = None
    /\ "dependencies" \in DOMAIN wire[1].json.v
    /\ "args" \notin DOMAIN wire[1].json.v

\* an execute_code call has ended on a decoded response object
ExecuteReturned ==
    /\ pc = "done"
    /\ call.op = "execute_code"
    /\ tres.kind = "return"
    /\ tres.val.t = "obj"

\* stage n of the decoded response is present
HasStage(n) ==
    /\ "stages" \in DOMAIN tres.val.f
    /\ n \in DOMAIN tres.val.f["stages"].f

\* field k of stage n of the decoded response, None when the stage or the field is absent
StageField(n, k) ==
    IF HasStage(n) /\ k \in DOMAIN tres.val.f["stages"].f[n].f
    THEN Some(tres.val.f["stages"].f[n].f[k].x)
    ELSE None

\* the response {"stages": {"execute": {"stdout": "hi\n"}}}
HiResponse ==
    JObj(FromPairs({<<"stages",
        JObj(FromPairs({<<"execute", JObj(FromPairs({<<"stdout", JStr("hi\n")>>}))>>}))>>}))

\* C7: each field of the ExecutionResult is set iff the response field is
\* present, and then equals it: a missing stage leaves both its fields unset, a
\* missing stdout or stderr is unset and never the empty string, web_app_url is
\* the top-level webAppUrl, other top-level fields are ignored.
C7_ResultMirrorsResponse ==
    ExecuteReturned =>
        /\ result.kind = "return"
        /\ result.val.install_output = StageField("install", "stdout")
        /\ result.val.install_error = StageField("install", "stderr")
        /\ result.val.execute_output = StageField("execute", "stdout")
        /\ result.val.execute_error = StageField("execute", "stderr")
        /\ result.val.web_app_url =
              IF "webAppUrl" \in DOMAIN tres.val.f
              THEN Some(tres.val.f["webAppUrl"].x) ELSE None
        /\ tres.val = HiResponse =>
              result.val = [EmptyResult EXCEPT !.execute_output = Some("hi\n")]

C7_Witness ==
    /\ ExecuteReturned
    /\ tres.val = HiResponse
    /\ result = Return([EmptyResult EXCEPT !.execute_output = Some("hi\n")])

\* the headers given for the running call, none being the empty mapping
CallHeaders == IF call.headers = None THEN EmptyDict ELSE call.headers.v

\* C8: the headers sent are the union of the default headers and the headers
\* of the call; on a key of both, the value of the call is sent; a default
\* header that is not overridden is sent.
C8_HeadersMerged ==
    pc = "sent" =>
        /\ DOMAIN wire[1].headers = DOMAIN session_headers \cup DOMAIN CallHeaders
        /\ \A k \in DOMAIN CallHeaders : wire[1].headers[k] = CallHeaders[k]
        /\ \A k \in DOMAIN session_headers \ DOMAIN CallHeaders :
              wire[1].headers[k] = session_headers[k]

C8_Witness ==
    /\ pc = "sent"
    /\ DOMAIN session_headers = {"Authorization", "X-Trace"}
    /\ DOMAIN CallHeaders = {"Authorization"}
    /\ wire[1].headers["Authorization"] = "percall"
    /\ wire[1].headers["X-Trace"] = "default"

\* C9: every operation hands its caller the classified error the transport
\* raised, unchanged; install_package alone turns AlreadyExists, and nothing
\* else, into the return value false, and returns true on success.
C9_ErrorsPropagate ==
    (pc = "done" /\ call.op \in PublicOps) =>
        /\ (/\ tres.kind = "raise"
            /\ tres.exc \in {NotFound, AlreadyExists, TransportFailure}
            /\ ~(call.op = "install_package" /\ tres.exc = AlreadyExists))
           => result = tres
        /\ call.op = "install_package" =>
              /\ (tres.kind = "raise" /\ tres.exc = AlreadyExists) => result = Return(FALSE)
              /\ tres.kind = "return" => result = Return(TRUE)
              /\ result = Return(FALSE) => (tres.kind = "raise" /\ tres.exc = AlreadyExists)

C9_Witness ==
    /\ pc = "done"
    /\ call.op = "install_package"
    /\ tres.kind = "raise"
    /\ tres.exc = NotFound
    /\ result = tres

\* C10: a 2xx response with no body makes the transport return the empty
\* mapping; install_package returns true, uninstall_package and
\* terminate_process return normally, execute_code returns a result with all
\* five fields unset.
C10_EmptyBodyIsEmptyMapping ==
    (pc = "done" /\ http.kind = "response" /\ http.status_code \in {200, 204}
        /\ http.body = EmptyBody) =>
        /\ tres = Return(JObj(EmptyDict))
        /\ call.op = "install_package" => result = Return(TRUE)
        /\ call.op \in {"uninstall_package", "terminate_process"} => result = Return(None)
        /\ call.op = "execute_code" => result = Return(EmptyResult)

C10_Witness ==
    /\ Answered(204)
    /\ http.body = EmptyBody
    /\ call.op = "execute_code"
    /\ result = Return(EmptyResult)

\* a list operation has ended on a decoded response array
ListReturned(op) ==
    /\ pc = "done"
    /\ call.op = op
    /\ tres.kind = "return"
    /\ tres.val.t = "arr"

\* the entry lacks a field of required or carries one outside fields
Malformed(e, required, fields) ==
    ~(required \subseteq DOMAIN e.f) \/ ~(DOMAIN e.f \subseteq fields)

\* C11: list_runtimes and list_packages return one record per entry of the
\* response array, in its order and with its fields, or the whole call fails;
\* with a malformed entry the call fails, no entry is dropped.
C11_NoPartialDecode ==
    /\ ListReturned("list_runtimes") =>
          LET es == tres.val.s IN
          /\ (\E i \in DOMAIN es :
                Malformed(es[i], {"language", "version"},
                          {"language", "version", "runtime", "aliases"}))
             => result.kind = "raise"
          /\ result.kind = "return" =>
                /\ Len(result.val) = Len(es)
                /\ \A i \in DOMAIN es :
                      /\ result.val[i].language = es[i].f["language"]
                      /\ result.val[i].version = es[i].f["version"]
                      /\ result.val[i].runtime =
                            IF "runtime" \in DOMAIN es[i].f THEN es[i].f["runtime"] ELSE None
                      /\ result.val[i].aliases =
                            IF "aliases" \in DOMAIN es[i].f THEN es[i].f["aliases"]
                            ELSE JArr(<<>>)
    /\ ListReturned("list_packages") =>
          LET es == tres.val.s IN
          /\ (\E i \in DOMAIN es :
                Malformed(es[i], {"language", "language_version", "installed"},
                          {"language", "language_version", "installed"}))
             => result.kind = "raise"
          /\ result.kind = "return" =>
                /\ Len(result.val) = Len(es)
                /\ \A i \in DOMAIN es :
                      /\ result.val[i].language = es[i].f["language"]
                      /\ result.val[i].language_version = es[i].f["language_version"]
                      /\ result.val[i].installed = es[i].f["installed"]

C11_Witness ==
    /\ ListReturned("list_runtimes")
    /\ Len(tres.val.s) = 2
    /\ tres.val.s[1].f["language"] = JStr("python")
    /\ "version" \in DOMAIN tres.val.s[1].f
    /\ "version" \notin DOMAIN tres.val.s[2].f
    /\ result.kind = "raise"

\* C14: whatever the HTTP outcome, a transport call ends by returning the
\* decoded JSON value or by raising NotFound, AlreadyExists or
\* TransportFailure; no other exception reaches the caller.
C14_OnlyClassifiedErrors ==
    pc = "done" =>
        \/ /\ tres.kind = "return"
           /\ http.kind = "response"
           /\ tres.val = IF http.body.fmt = "json" THEN http.body.val ELSE JObj(EmptyDict)
        \/ /\ tres.kind = "raise"
           /\ tres.exc \in {NotFound, AlreadyExists, TransportFailure}

\* C15: an operation issues exactly one HTTP request per invocation, whatever
\* the outcome: when it has returned or raised, one request was sent and none
\* is left in flight; between calls nothing is queued.
C15_OneRequestPerCall ==
    /\ pc = "idle" => (nreq = 0 /\ wire = <<>>)
    /\ pc = "sent" => (nreq = 1 /\ Len(wire) = 1)
    /\ pc = "waiting" => (nreq = 1 /\ wire = <<>>)
    /\ pc = "done" => (nreq = 1 /\ wire = <<>>)

C15_Witness ==
    /\ pc = "done"
    /\ call.op = "install_package"
    /\ http.kind = "error"
    /\ result.kind = "raise"
    /\ nreq = 1
    /\ wire = <<>>

\* C18: every call of the client, connect_websocket included, sends each
\* default header, with the value of the call where the call gives the same key.
C18_DefaultsOnEveryCall ==
    pc \in {"sent", "ws_sent"} =>
        \A k \in DOMAIN session_headers :
            /\ k \in DOMAIN wire[1].headers
            /\ wire[1].headers[k] =
                  IF k \in DOMAIN CallHeaders THEN CallHeaders[k] ELSE session_headers[k]

\* no header on the wire carries a value some call supplied, unless this call supplied it
NoLeak ==
    pc \in {"sent", "ws_sent"} =>
        \A k \in DOMAIN wire[1].headers :
            wire[1].headers[k] = "percall" => k \in DOMAIN CallHeaders

\* C16: no call changes the client's configuration (base URL, timeout, default
\* headers), whatever headers it supplies, and a header supplied for one call
\* is not sent on a later call that does not supply it.
C16_ConfigImmutable ==
    [][/\ config' = config
       /\ base_url' = Rstrip(base_url_arg)
       /\ NoLeak']_vars

C16_Witness ==
    /\ pc = "sent"
    /\ "X-Trace" \in supplied
    /\ "X-Trace" \notin DOMAIN CallHeaders
    /\ DOMAIN session_headers = {"Authorization"}
    /\ DOMAIN wire[1].headers = {"Authorization"}

\* the endpoint without its leading slashes
EndpointName(e) ==
    IF \A i \in DOMAIN e : e[i] = "/" THEN <<>>
    ELSE LET first == CHOOSE i \in DOMAIN e :
                          e[i] # "/" /\ \A j \in 1..(i - 1) : e[j] = "/"
         IN  SubSeq(e, first, Len(e))

\* C17: the request URL is the base URL without trailing slash, one slash, and
\* the endpoint without leading slash, whatever slashes the base URL given at
\* construction ends with and the endpoint starts with.
C17_UrlJoin ==
    pc = "sent" =>
        /\ base_url_arg \in BaseUrlInputs
        /\ wire[1].url = DEFAULT_BASE_URL \o <<"/">> \o EndpointName(call.endpoint)
        /\ wire[1].url[Len(DEFAULT_BASE_URL)] # "/"
        /\ wire[1].url[Len(DEFAULT_BASE_URL) + 2] # "/"

C17_Witness ==
    /\ pc = "sent"
    /\ base_url_arg = DEFAULT_BASE_URL \o <<"/", "/">>
    /\ call.endpoint = <<"/", "/", "packages">>
    /\ wire[1].url = DEFAULT_BASE_URL \o <<"/", "packages">>

=============================================================================
